---- MODULE Spec2Model ----
(***************************************************************************)
(* cargo-clean-recursive (src/src/main.rs): the recursive walk process_dir, *)
(* the per-directory step detect_and_clean, and the configuration built by  *)
(* _main.                                                                   *)
(*                                                                          *)
(* File names and exclusion strings are sequences of bytes (OsStr / str).   *)
(* A directory tree is a sequence of entries [parent, name, kind]; entry 1  *)
(* is the path given to the top-level call.                                 *)
(***************************************************************************)
EXTENDS Integers, Sequences, FiniteSets, TLC

\* Largest depth budget handed to the top-level call of process_dir.
MaxDepth == 3

\* Largest number of I/O failures (spawn, read_dir, entry) injected in a run.
MaxFaults == 2

VARIABLES
    matches,      \* the parsed command line (clap's ArgMatches) read by _main
    main_pc,      \* position of _main: "start", "called", "exited"
    tree,         \* the directory tree on disk when the scan starts
    config,       \* Config { exclude_dirs, del_mode }
    depth0,       \* the depth given to the top-level process_dir call
    stack,        \* call stack of process_dir frames
    removed,      \* entries the external tool has deleted
    visited,      \* directories on which detect_and_clean has run
    detected,     \* directories detect_and_clean found to be build roots
    invocations,  \* per directory, the tool invocations made, in order
    listed,       \* directories on which read_dir has been called
    called,       \* children process_dir recursed into
    skipped,      \* listing entries passed over (non-directory or excluded)
    faultAt,      \* <<directory, site>>: an I/O failure arose at that site
    warned,       \* children whose failure the parent printed as "Warn:"
    faults,       \* number of failures injected so far
    result,       \* what the top-level process_dir returned: "none","Ok","Err"
    exit_code     \* process exit status, -1 while running

vars == <<matches, main_pc, tree, config, depth0, stack, removed, visited,
          detected, invocations, listed, called, skipped, faultAt, warned,
          faults, result, exit_code>>

----------------------------------------------------------------------------
\* Names (bytes).

\* "Cargo.toml"
CargoToml == <<67, 97, 114, 103, 111, 46, 116, 111, 109, 108>>
\* "target"
TargetName == <<116, 97, 114, 103, 101, 116>>
\* "doc", "release": what `cargo clean --doc` / `--release` remove under target
DocName == <<100, 111, 99>>
ReleaseName == <<114, 101, 108, 101, 97, 115, 101>>

----------------------------------------------------------------------------
\* Directory trees the scan is started on.  Entry i is [parent, name, kind];
\* parent 0 marks the start path.  kind is "dir", "file" or "symlink_dir"
\* (a symbolic link to a directory).

Entry(p, n, k) == [parent |-> p, name |-> n, kind |-> k]

\* build/ { pa/ { Cargo.toml, target/ { release/ } }, pb/ { Cargo.toml } }
TreeProjects ==
    << Entry(0, <<98, 117, 105, 108, 100>>, "dir"),
       Entry(1, <<112, 97>>, "dir"),
       Entry(2, CargoToml, "file"),
       Entry(2, TargetName, "dir"),
       Entry(4, ReleaseName, "dir"),
       Entry(1, <<112, 98>>, "dir"),
       Entry(6, CargoToml, "file") >>

\* ws/ { Cargo.toml/ (a directory), target -> dir, \xFFb/, build/ { Cargo.toml, target/ } }
TreeOddNames ==
    << Entry(0, <<119, 115>>, "dir"),
       Entry(1, CargoToml, "dir"),
       Entry(1, TargetName, "symlink_dir"),
       Entry(1, <<255, 98>>, "dir"),
       Entry(1, <<98, 117, 105, 108, 100>>, "dir"),
       Entry(5, CargoToml, "file"),
       Entry(5, TargetName, "dir") >>

\* pb/ { target/ { doc/ }, \xC3\xA9/ { Cargo.toml, target (a file) } }
TreeNoRoots ==
    << Entry(0, <<112, 98>>, "dir"),
       Entry(1, TargetName, "dir"),
       Entry(2, DocName, "dir"),
       Entry(1, <<195, 169>>, "dir"),
       Entry(4, CargoToml, "file"),
       Entry(4, TargetName, "file") >>

Trees == {TreeProjects, TreeOddNames, TreeNoRoots}

Root == 1

Nodes(t) == 1..Len(t)

ChildrenOf(t, p) == {c \in Nodes(t) : t[c].parent = p}

\* Proper ancestors of n (entries are numbered parents first).
RECURSIVE Ancestors(_, _)
Ancestors(t, n) ==
    IF t[n].parent = 0 THEN {}
    ELSE {t[n].parent} \cup Ancestors(t, t[n].parent)

\* Recursion depth of n below the start path (the start path is at 0).
TreeDepth(t, n) == Cardinality(Ancestors(t, n))

Descendants(t, n) == {m \in Nodes(t) : n \in Ancestors(t, m)}

----------------------------------------------------------------------------
\* Strings.

\* OsStr::to_str: Some(name) iff the bytes are valid UTF-8.  One- and two-byte
\* sequences are decoded; no name of the model holds a byte of a longer form.
RECURSIVE IsUtf8From(_, _)
IsUtf8From(s, i) ==
    IF i > Len(s) THEN TRUE
    ELSE IF s[i] < 128 THEN IsUtf8From(s, i + 1)
    ELSE IF s[i] >= 194 /\ s[i] <= 223
         THEN /\ i + 1 <= Len(s)
              /\ s[i + 1] >= 128 /\ s[i + 1] <= 191
              /\ IsUtf8From(s, i + 2)
    ELSE FALSE

to_str(name) ==
    IF IsUtf8From(name, 1) THEN [some |-> TRUE, val |-> name]
    ELSE [some |-> FALSE, val |-> <<>>]

\* str::ends_with
ends_with(s, d) ==
    /\ Len(d) <= Len(s)
    /\ SubSeq(s, Len(s) - Len(d) + 1, Len(s)) = d

\* str::split(sep): the pieces between separators, empty pieces kept.
RECURSIVE split(_, _)
split(s, sep) ==
    IF \A i \in 1..Len(s) : s[i] # sep THEN <<s>>
    ELSE LET k == CHOOSE i \in 1..Len(s) :
                      s[i] = sep /\ \A j \in 1..(i - 1) : s[j] # sep
         IN <<SubSeq(s, 1, k - 1)>> \o split(SubSeq(s, k + 1, Len(s)), sep)

\* str::parse::<usize>: an optional '+', then one or more decimal digits.
RECURSIVE DigitsValue(_)
DigitsValue(s) ==
    IF s = <<>> THEN 0
    ELSE 10 * DigitsValue(SubSeq(s, 1, Len(s) - 1)) + (s[Len(s)] - 48)

parse_usize(s) ==
    LET body == IF s # <<>> /\ s[1] = 43 THEN Tail(s) ELSE s
    IN IF body # <<>> /\ \A i \in 1..Len(body) : body[i] >= 48 /\ body[i] <= 57
       THEN [ok |-> TRUE, val |-> DigitsValue(body)]
       ELSE [ok |-> FALSE, val |-> 0]

----------------------------------------------------------------------------
\* Configuration.

\* enum DeleteMode { All, Partial { doc, release } }; All carries no flags
\* (its doc and release fields are fixed to FALSE and never read).
AllMode == [tag |-> "All", doc |-> FALSE, release |-> FALSE]
Partial(d, r) == [tag |-> "Partial", doc |-> d, release |-> r]
DeleteModes == {AllMode} \cup {Partial(d, r) : d \in BOOLEAN, r \in BOOLEAN}

\* A mode builder that forgets the (false, false) arm.
BuildDelModeNoAll(doc, release) == Partial(doc, release)

\* _main: match (is_present("doc"), is_present("release"))
BuildDelMode(doc, release) ==
    IF ~doc /\ ~release THEN AllMode ELSE Partial(doc, release)

\* Values of --exclude_dirs: "b", "et build", "" .
ExcludeArgs ==
    { <<98>>, <<101, 116, 32, 98, 117, 105, 108, 100>>, <<>> }

\* Config.exclude_dirs: nothing given, or the argument split at spaces.
ExcludeLists == {<<>>} \cup {split(a, 32) : a \in ExcludeArgs}

\* Values of --depth: "0", "2", "64" (the default), "-1".
DepthArgs == { <<48>>, <<50>>, <<54, 52>>, <<45, 49>> }

\* An exclusion test that compares whole names.
ExcludedExact(file_name, exclude_dirs) ==
    \E i \in 1..Len(exclude_dirs) :
        LET s == to_str(file_name) IN s.some /\ s.val = exclude_dirs[i]

\* process_dir: exclude_dirs.iter().find(|d| name.to_str().map_or(false,
\* |e| e.ends_with(d))) is Some
Excluded(file_name, exclude_dirs) ==
    \E i \in 1..Len(exclude_dirs) :
        LET s == to_str(file_name) IN s.some /\ ends_with(s.val, exclude_dirs[i])

----------------------------------------------------------------------------
\* detect_and_clean.

\* Path::exists on path.join(name): an entry of that name, of any kind.
Exists(t, rem, p, name) ==
    \E c \in ChildrenOf(t, p) \ rem : t[c].name = name

\* Path::is_dir on path.join(name): links are followed.
IsDir(t, rem, p, name) ==
    \E c \in ChildrenOf(t, p) \ rem :
        t[c].name = name /\ t[c].kind \in {"dir", "symlink_dir"}

\* A detection rule that is satisfied by either entry alone.
IsBuildRootEither(t, rem, p) ==
    \/ Exists(t, rem, p, CargoToml)
    \/ (Exists(t, rem, p, TargetName) /\ IsDir(t, rem, p, TargetName))

\* detect_and_clean: the two early returns, negated.
IsBuildRoot(t, rem, p) ==
    /\ Exists(t, rem, p, CargoToml)
    /\ Exists(t, rem, p, TargetName) /\ IsDir(t, rem, p, TargetName)

\* A dispatch that falls back to the full clean when no flag is set.
CleanPlanFallback(mode) ==
    IF mode.tag = "All" \/ (~mode.doc /\ ~mode.release) THEN <<"clean">>
    ELSE (IF mode.doc THEN <<"doc">> ELSE <<>>)
         \o (IF mode.release THEN <<"release">> ELSE <<>>)

\* detect_and_clean: the invocations `match del_mode` asks for, in order:
\* "clean" is `cargo clean`, "doc" `cargo clean --doc`, "release"
\* `cargo clean --release`.
CleanPlan(mode) ==
    IF mode.tag = "All" THEN <<"clean">>
    ELSE (IF mode.doc THEN <<"doc">> ELSE <<>>)
         \o (IF mode.release THEN <<"release">> ELSE <<>>)

\* What Command::output() can give: the process could not be spawned, or it
\* ran and exited with status zero or non-zero.
Outcomes == {"spawn_err", "exit0", "exit_fail"}

\* A step that also gives up on a non-zero exit status.
AbortsOnStatus(out) == out # "exit0"

\* `.output()?`: only a spawn failure leaves detect_and_clean early.
Aborts(out) == out = "spawn_err"

\* The invocations actually made when the planned ones end as outs says.
Executed(plan, outs) ==
    LET stops == {i \in 1..Len(plan) : Aborts(outs[i])}
        last == IF stops = {} THEN Len(plan)
                ELSE CHOOSE i \in stops : \A j \in stops : i <= j
    IN [i \in 1..last |-> [kind |-> plan[i], out |-> outs[i]]]

\* What a successful tool run deletes below p: `cargo clean` the target
\* entry, `--doc` and `--release` the entry of that name inside target.
ToolRemoves(t, p, kind) ==
    LET tg == {c \in ChildrenOf(t, p) : t[c].name = TargetName}
        sub == IF kind = "clean" THEN tg
               ELSE {c \in Nodes(t) :
                        /\ t[c].parent \in tg
                        /\ t[c].name = (IF kind = "doc" THEN DocName ELSE ReleaseName)}
    IN sub \cup UNION {Descendants(t, c) : c \in sub}

----------------------------------------------------------------------------
\* process_dir.

Frame(p, d) == [path |-> p, depth |-> d, pc |-> "start", rest |-> {}, ret |-> "none"]

Top == stack[Len(stack)]

SetTop(f) == [stack EXCEPT ![Len(stack)] = f]

Returning(f, r) == [f EXCEPT !.pc = "return", !.ret = r]

\* A depth guard that also stops one level early.
DepthExhaustedEarly(depth) == depth <= 1

\* process_dir: if depth == 0 { return Ok(()) }
DepthExhausted(depth) == depth = 0

\* A recursive call that hands the budget on undiminished.
ChildDepthSame(depth) == depth

\* process_dir: process_dir(&e.path(), depth - 1, config)
ChildDepth(depth) == depth - 1

\* process_dir entry: the depth guard.
DepthCheck ==
    /\ stack # <<>>
    /\ Top.pc = "start"
    /\ stack' = SetTop(IF DepthExhausted(Top.depth) THEN Returning(Top, "Ok")
                       ELSE [Top EXCEPT !.pc = "detect"])
    /\ UNCHANGED <<matches, main_pc, tree, config, depth0, removed, visited,
                   detected, invocations, listed, called, skipped, faultAt,
                   warned, faults, result, exit_code>>

\* A caller that goes on to list the directory whatever the step returned.
AfterDetectIgnore(f, err) == [f EXCEPT !.pc = "read_dir"]

\* process_dir: detect_and_clean(..).with_context(..)?
AfterDetect(f, err) ==
    IF err THEN Returning(f, "Err") ELSE [f EXCEPT !.pc = "read_dir"]

\* The call of detect_and_clean on the frame's path, and the function itself.
DetectAndClean ==
    /\ stack # <<>>
    /\ Top.pc = "detect"
    /\ LET p == Top.path
           plan == CleanPlan(config.del_mode)
       IN /\ visited' = visited \cup {p}
          /\ IF ~IsBuildRoot(tree, removed, p)
             THEN /\ stack' = SetTop(AfterDetect(Top, FALSE))
                  /\ UNCHANGED <<removed, detected, invocations, faultAt, faults>>
             ELSE \E outs \in [1..Len(plan) -> Outcomes] :
                    LET run == Executed(plan, outs)
                        err == \E i \in 1..Len(run) : run[i].out = "spawn_err"
                    IN /\ \A i \in 1..Len(plan) : i > Len(run) => outs[i] = "exit0"
                       /\ err => faults < MaxFaults
                       /\ detected' = detected \cup {p}
                       /\ invocations' = [invocations EXCEPT ![p] = run]
                       /\ removed' = removed \cup UNION
                              {ToolRemoves(tree, p, run[i].kind) :
                                  i \in {j \in 1..Len(run) : run[j].out = "exit0"}}
                       /\ faultAt' = IF err THEN faultAt \cup {<<p, "clean">>}
                                     ELSE faultAt
                       /\ faults' = IF err THEN faults + 1 ELSE faults
                       /\ stack' = SetTop(AfterDetect(Top, err))
    /\ UNCHANGED <<matches, main_pc, tree, config, depth0, listed, called,
                   skipped, warned, result, exit_code>>

\* path.read_dir().with_context(..)?: the listing starts, or fails.
ReadDir ==
    /\ stack # <<>>
    /\ Top.pc = "read_dir"
    /\ listed' = listed \cup {Top.path}
    /\ \/ /\ stack' = SetTop([Top EXCEPT !.pc = "loop",
                                 !.rest = ChildrenOf(tree, Top.path) \ removed])
          /\ UNCHANGED <<faultAt, faults>>
       \/ /\ faults < MaxFaults
          /\ faults' = faults + 1
          /\ faultAt' = faultAt \cup {<<Top.path, "read_dir">>}
          /\ stack' = SetTop(Returning(Top, "Err"))
    /\ UNCHANGED <<matches, main_pc, tree, config, depth0, removed, visited,
                   detected, invocations, called, skipped, warned, result,
                   exit_code>>

\* One turn of the `for e in ..` loop: the listing yields some entry not yet
\* seen (in no fixed order); `e?` or `e.file_type()?` may fail; a directory
\* that is not excluded is recursed into with depth - 1.
LoopEntry ==
    /\ stack # <<>>
    /\ Top.pc = "loop"
    /\ \E c \in Top.rest :
        \/ /\ faults < MaxFaults
           /\ faults' = faults + 1
           /\ faultAt' = faultAt \cup {<<Top.path, "entry">>}
           /\ stack' = SetTop(Returning(Top, "Err"))
           /\ UNCHANGED <<called, skipped>>
        \/ /\ IF tree[c].kind = "dir" /\ ~Excluded(tree[c].name, config.exclude_dirs)
              THEN /\ stack' = Append(SetTop([Top EXCEPT !.rest = @ \ {c}]),
                                      Frame(c, ChildDepth(Top.depth)))
                   /\ called' = called \cup {c}
                   /\ UNCHANGED skipped
              ELSE /\ stack' = SetTop([Top EXCEPT !.rest = @ \ {c}])
                   /\ skipped' = skipped \cup {c}
                   /\ UNCHANGED called
           /\ UNCHANGED <<faultAt, faults>>
    /\ UNCHANGED <<matches, main_pc, tree, config, depth0, removed, visited,
                   detected, invocations, listed, warned, result, exit_code>>

\* The listing is exhausted: process_dir's final Ok(()).
LoopDone ==
    /\ stack # <<>>
    /\ Top.pc = "loop"
    /\ Top.rest = {}
    /\ stack' = SetTop(Returning(Top, "Ok"))
    /\ UNCHANGED <<matches, main_pc, tree, config, depth0, removed, visited,
                   detected, invocations, listed, called, skipped, faultAt,
                   warned, faults, result, exit_code>>

\* A caller that hands the child's error on, as `?` would.
AfterChildPropagate(parent, ret) ==
    IF ret = "Err" THEN Returning(parent, "Err") ELSE parent

\* process_dir: if let Err(e) = process_dir(child..) { eprintln!("Warn: ..") }:
\* the loop goes on whatever the child returned.
AfterChild(parent, ret) == parent

\* A recursive call returns into its parent's loop.
ReturnToParent ==
    /\ Len(stack) > 1
    /\ Top.pc = "return"
    /\ LET parent == stack[Len(stack) - 1]
       IN stack' = Append(SubSeq(stack, 1, Len(stack) - 2),
                          AfterChild(parent, Top.ret))
    /\ warned' = IF Top.ret = "Err" THEN warned \cup {Top.path} ELSE warned
    /\ UNCHANGED <<matches, main_pc, tree, config, depth0, removed, visited,
                   detected, invocations, listed, called, skipped, faultAt,
                   faults, result, exit_code>>

\* The top-level call returns to _main (`process_dir(..)?; Ok(())`), and main
\* exits with status 1 on Err.
ReturnToMain ==
    /\ Len(stack) = 1
    /\ Top.pc = "return"
    /\ stack' = <<>>
    /\ result' = Top.ret
    /\ exit_code' = IF Top.ret = "Err" THEN 1 ELSE 0
    /\ main_pc' = "exited"
    /\ UNCHANGED <<matches, tree, config, depth0, removed, visited, detected,
                   invocations, listed, called, skipped, faultAt, warned,
                   faults>>

----------------------------------------------------------------------------
\* _main.

NoConfig == [exclude_dirs |-> <<>>,
             del_mode |-> [tag |-> "unset", doc |-> FALSE, release |-> FALSE]]

\* What _main reads from the command line: whether --doc and --release are
\* present, the value of --depth, and the value of --exclude_dirs if any.
Matches ==
    [doc : BOOLEAN, release : BOOLEAN, depth : DepthArgs,
     exclude_dirs : [some : {TRUE}, val : ExcludeArgs]
                    \cup {[some |-> FALSE, val |-> <<>>]}]

\* _main from the match on the flags to the call of process_dir; a depth that
\* does not parse ends the run with status 1 before any directory is touched.
Main ==
    /\ main_pc = "start"
    /\ LET d == parse_usize(matches.depth)
       IN IF d.ok
          THEN /\ config' =
                    [exclude_dirs |->
                         IF matches.exclude_dirs.some
                         THEN split(matches.exclude_dirs.val, 32) ELSE <<>>,
                     del_mode |-> BuildDelMode(matches.doc, matches.release)]
               /\ depth0' = d.val
               /\ stack' = <<Frame(Root, d.val)>>
               /\ main_pc' = "called"
               /\ UNCHANGED exit_code
          ELSE /\ main_pc' = "exited"
               /\ exit_code' = 1
               /\ UNCHANGED <<config, depth0, stack>>
    /\ UNCHANGED <<matches, tree, removed, visited, detected, invocations,
                   listed, called, skipped, faultAt, warned, faults, result>>

----------------------------------------------------------------------------
\* Specifications.

InitScan ==
    /\ tree \in Trees
    /\ removed = {}
    /\ visited = {}
    /\ detected = {}
    /\ invocations = [n \in Nodes(tree) |-> <<>>]
    /\ listed = {}
    /\ called = {}
    /\ skipped = {}
    /\ faultAt = {}
    /\ warned = {}
    /\ faults = 0
    /\ result = "none"
    /\ exit_code = -1

\* process_dir called on the start path with any depth and any Config.
Init ==
    /\ InitScan
    /\ matches = [doc |-> FALSE, release |-> FALSE, depth |-> <<>>,
                  exclude_dirs |-> [some |-> FALSE, val |-> <<>>]]
    /\ main_pc = "called"
    /\ config \in [exclude_dirs : ExcludeLists, del_mode : DeleteModes]
    /\ depth0 \in 0..MaxDepth
    /\ stack = <<Frame(Root, depth0)>>

Walk ==
    \/ DepthCheck
    \/ DetectAndClean
    \/ ReadDir
    \/ LoopEntry
    \/ LoopDone
    \/ ReturnToParent
    \/ ReturnToMain

Next == Walk

Spec == Init /\ [][Next]_vars

\* The walk never waits on anything but its own next step.
FairSpec == Spec /\ WF_vars(Next)

\* The program started from the command line.
MainInit ==
    /\ InitScan
    /\ matches \in Matches
    /\ main_pc = "start"
    /\ config = NoConfig
    /\ depth0 = 0
    /\ stack = <<>>

MainNext == Main \/ Walk

MainSpec == MainInit /\ [][MainNext]_vars

Done == stack = <<>> /\ main_pc = "exited"

----------------------------------------------------------------------------
\* Vocabulary of the properties.

\* d is a suffix of n, byte for byte.
SuffixOf(d, n) == \E k \in 0..Len(n) : SubSeq(n, k + 1, Len(n)) = d

SomeSuffix(n, E) == \E i \in 1..Len(E) : SuffixOf(E[i], n)

NoFaultAt(n) == \A site \in {"clean", "read_dir", "entry"} : <<n, site>> \notin faultAt

\* n is a directory still on disk, and it and every directory between it and
\* the start path is one the exclusion list lets through.
Reach(n) ==
    /\ n \notin removed
    /\ \A m \in (Ancestors(tree, n) \cup {n}) \ {Root} :
          tree[m].kind = "dir" /\ ~Excluded(tree[m].name, config.exclude_dirs)

Kinds(run) == [i \in 1..Len(run) |-> run[i].kind]

HasCargoToml(n) == \E c \in ChildrenOf(tree, n) : tree[c].name = CargoToml

HasTargetDir(n) ==
    \E c \in ChildrenOf(tree, n) :
        tree[c].name = TargetName /\ tree[c].kind \in {"dir", "symlink_dir"}

----------------------------------------------------------------------------
\* C1: a directory at depth d below the start path, reached through
\* non-excluded directories none of which failed, has detect_and_clean run on
\* it iff d is below the initial depth budget; nothing at a depth at or beyond
\* the budget is ever visited or listed, the start path included when the
\* budget is 0 (the call then returns Ok having touched nothing).
Thm_C1 ==
    /\ \A n \in visited \cup listed : TreeDepth(tree, n) < depth0
    /\ Done =>
         \A n \in Nodes(tree) :
            (Reach(n) /\ \A a \in Ancestors(tree, n) : NoFaultAt(a))
               => (n \in visited <=> TreeDepth(tree, n) < depth0)
    /\ (Done /\ depth0 = 0) => (result = "Ok" /\ visited = {} /\ listed = {})

\* A budget of 2 has run out: a depth-1 directory was visited and a reachable
\* depth-2 directory was not.
Wit_C1 ==
    /\ Done /\ depth0 = 2
    /\ \E n \in visited : TreeDepth(tree, n) = 1
    /\ \E n \in Nodes(tree) :
          /\ TreeDepth(tree, n) = 2 /\ Reach(n) /\ n \notin visited
          /\ \A a \in Ancestors(tree, n) : NoFaultAt(a)

\* C2 as stated: a child directory is skipped iff some member of the
\* exclusion list is a suffix of its name (nothing at or below a skipped child
\* is visited or listed), and the start path is visited whatever its name.
Orig_C2 ==
    /\ \A c \in called \cup skipped :
          tree[c].kind = "dir" =>
             /\ c \in skipped <=> SomeSuffix(tree[c].name, config.exclude_dirs)
             /\ c \in skipped =>
                   (Descendants(tree, c) \cup {c}) \cap (visited \cup listed \cup called) = {}
    /\ Root \notin skipped
    /\ (Done /\ depth0 > 0) => Root \in visited

\* C2, amended: a child directory is skipped iff its name is valid Unicode and
\* some member of the exclusion list is a suffix of it; a directory whose name
\* is not valid Unicode is recursed into whatever the list holds.
Thm_C2 ==
    /\ \A c \in called \cup skipped :
          tree[c].kind = "dir" =>
             /\ c \in skipped <=>
                   (to_str(tree[c].name).some
                       /\ SomeSuffix(tree[c].name, config.exclude_dirs))
             /\ c \in skipped =>
                   (Descendants(tree, c) \cup {c}) \cap (visited \cup listed \cup called) = {}
    /\ Root \notin skipped
    /\ (Done /\ depth0 > 0) => Root \in visited

\* The start path's own name ends with an excluded string and it was visited
\* all the same, while a directory below it was skipped for a suffix that is
\* not its whole name and another directory was recursed into.
Wit_C2 ==
    /\ Done
    /\ SomeSuffix(tree[Root].name, config.exclude_dirs) /\ Root \in visited
    /\ \E c \in skipped :
          /\ tree[c].kind = "dir"
          /\ tree[c].name \notin {config.exclude_dirs[i] : i \in 1..Len(config.exclude_dirs)}
    /\ \E c \in called : c \in visited

\* C3: when a recursive call fails, the parent prints a warning and its loop
\* goes on exactly where it was: every non-excluded directory of the listing
\* has been recursed into by the time the parent returns Ok.
Thm_C3 ==
    /\ [](\A i \in 1..Len(stack) :
            (stack[i].pc = "return" /\ stack[i].ret = "Ok" /\ stack[i].depth > 0)
               => \A c \in ChildrenOf(tree, stack[i].path) \ removed :
                     (tree[c].kind = "dir"
                         /\ ~Excluded(tree[c].name, config.exclude_dirs))
                        => c \in called)
    /\ [][(Len(stack) > 1 /\ Top.pc = "return" /\ Top.ret = "Err")
             => /\ Len(stack') = Len(stack) - 1
                /\ stack'[Len(stack')] = stack[Len(stack) - 1]
                /\ warned' = warned \cup {Top.path}]_vars

\* A directory is being walked after its sibling failed and was warned about.
Wit_C3 ==
    \E i \in 2..Len(stack) : \E c \in warned :
        /\ c # stack[i].path
        /\ tree[c].parent = tree[stack[i].path].parent
        /\ stack[i].path \in visited

\* C4: the top-level call returns Err (and the process exits with status 1)
\* iff a failure arose at the start path itself, in its detect_and_clean or
\* in its listing; a failure anywhere below never does.
Thm_C4 ==
    (Done /\ result # "none") =>
        /\ result = "Err" <=> ~NoFaultAt(Root)
        /\ exit_code = (IF result = "Err" THEN 1 ELSE 0)

\* The scan ended in success although a directory two levels down failed.
Wit_C4 ==
    /\ Done /\ result = "Ok" /\ exit_code = 0
    /\ \E n \in Nodes(tree) : TreeDepth(tree, n) >= 2 /\ ~NoFaultAt(n)

\* C5: at a detected build root, All makes exactly one full clean;
\* Partial{doc} exactly one documentation clean; Partial{release} exactly one
\* release clean; Partial{} none, and the step succeeds.
Thm_C5 ==
    \A n \in Nodes(tree) :
        /\ n \notin detected => invocations[n] = <<>>
        /\ n \in detected =>
              /\ config.del_mode = AllMode => Kinds(invocations[n]) = <<"clean">>
              /\ config.del_mode = Partial(TRUE, FALSE)
                    => Kinds(invocations[n]) = <<"doc">>
              /\ config.del_mode = Partial(FALSE, TRUE)
                    => Kinds(invocations[n]) = <<"release">>
              /\ config.del_mode = Partial(FALSE, FALSE)
                    => (invocations[n] = <<>> /\ <<n, "clean">> \notin faultAt)

\* A build root was detected under Partial{doc: false, release: false} and the
\* walk went on to list it.
Wit_C5 ==
    \E n \in detected : config.del_mode = Partial(FALSE, FALSE) /\ n \in listed

\* C6: detect_and_clean takes the clean branch iff the directory holds an
\* entry Cargo.toml and an entry target that is a directory, whatever the
\* deletion mode; otherwise it invokes nothing and succeeds.
Thm_C6 ==
    \A n \in visited :
        /\ n \in detected <=> (HasCargoToml(n) /\ HasTargetDir(n))
        /\ n \notin detected => (invocations[n] = <<>> /\ <<n, "clean">> \notin faultAt)
        /\ (n \in detected /\ config.del_mode # Partial(FALSE, FALSE))
              => invocations[n] # <<>>

\* One directory was cleaned, and others with only one of the two entries
\* (Cargo.toml alone; target alone) were passed over.
Wit_C6 ==
    /\ detected # {}
    /\ \E n \in visited \ detected : HasCargoToml(n) /\ ~HasTargetDir(n)

\* C7: the walk returns; and when it returns Ok every directory reachable
\* through non-excluded directories at a depth below the budget was visited or
\* lies in a subtree whose failure an ancestor's loop warned about.
Thm_C7 ==
    /\ <>Done
    /\ []((Done /\ result = "Ok") =>
            \A n \in Nodes(tree) :
               (Reach(n) /\ TreeDepth(tree, n) < depth0)
                  => \/ n \in visited
                     \/ \E w \in warned : w = n \/ w \in Ancestors(tree, n))

\* The walk returned Ok with a reachable directory left unvisited inside a
\* subtree that failed, and other directories visited.
Wit_C7 ==
    /\ Done /\ result = "Ok"
    /\ \E n \in Nodes(tree) :
          /\ Reach(n) /\ TreeDepth(tree, n) < depth0 /\ n \notin visited
          /\ \E w \in warned : w \in Ancestors(tree, n)
    /\ Cardinality(visited) >= 2

\* C8: the mode _main builds is All iff neither --doc nor --release is
\* present, and otherwise Partial with exactly the flags given;
\* Partial{false, false} is never built and never reaches process_dir.
Thm_C8 ==
    /\ config.del_mode # Partial(FALSE, FALSE)
    /\ config # NoConfig =>
          /\ config.del_mode = AllMode <=> (~matches.doc /\ ~matches.release)
          /\ (matches.doc \/ matches.release)
                => config.del_mode = Partial(matches.doc, matches.release)
    /\ stack # <<>> => config.del_mode \in DeleteModes \ {Partial(FALSE, FALSE)}

\* A run with --release alone has cleaned a build root.
Wit_C8 ==
    /\ ~matches.doc /\ matches.release
    /\ config.del_mode = Partial(FALSE, TRUE)
    /\ \E n \in detected : Kinds(invocations[n]) = <<"release">>

\* C9: a directory's detect_and_clean has completed before its children are
\* listed, nothing below it is visited before that, and a directory whose
\* step failed is never listed.
Thm_C9 ==
    /\ [](/\ \A n \in listed : n \in visited /\ <<n, "clean">> \notin faultAt
          /\ \A n \in visited \cup listed \cup called :
                \A a \in Ancestors(tree, n) : a \in visited /\ a \in listed
          /\ \A i \in 1..Len(stack) :
                stack[i].pc \in {"start", "detect"} =>
                   /\ Descendants(tree, stack[i].path) \cap (visited \cup listed \cup called) = {}
                   /\ \A m \in Descendants(tree, stack[i].path) : invocations[m] = <<>>)
    /\ [][\A n \in listed' \ listed : n \in visited]_vars

\* A build root whose tool could not be spawned returned without being
\* listed, and the walk has ended.
Wit_C9 ==
    /\ Done
    /\ \E n \in detected : <<n, "clean">> \in faultAt /\ n \notin listed
    /\ \E n \in listed : \E c \in ChildrenOf(tree, n) : c \in visited

\* C10 as stated: under Partial the release clean is invoked iff release is
\* set and the documentation clean iff doc is set, whatever the other
\* invocation's outcome.
Orig_C10 ==
    \A n \in detected :
        config.del_mode.tag = "Partial" =>
            /\ (\E i \in 1..Len(invocations[n]) : invocations[n][i].kind = "doc")
                  <=> config.del_mode.doc
            /\ (\E i \in 1..Len(invocations[n]) : invocations[n][i].kind = "release")
                  <=> config.del_mode.release

\* C10, amended: the documentation clean is invoked iff doc is set; the
\* release clean is invoked iff release is set and the documentation clean, if
\* any, could be spawned (its exit status does not matter); it comes after the
\* documentation clean.
Thm_C10 ==
    \A n \in detected :
        config.del_mode.tag = "Partial" =>
            LET run == invocations[n]
                docs == {i \in 1..Len(run) : run[i].kind = "doc"}
                rels == {i \in 1..Len(run) : run[i].kind = "release"}
            IN /\ docs # {} <=> config.del_mode.doc
               /\ rels # {} <=>
                     /\ config.del_mode.release
                     /\ \A i \in docs : run[i].out # "spawn_err"
               /\ \A i \in docs : \A j \in rels : i < j
               /\ Cardinality(docs) <= 1 /\ Cardinality(rels) <= 1

\* The documentation clean exited non-zero and the release clean was still
\* invoked after it.
Wit_C10 ==
    \E n \in detected :
        /\ Len(invocations[n]) = 2
        /\ invocations[n][1] = [kind |-> "doc", out |-> "exit_fail"]
        /\ invocations[n][2].kind = "release"

====
